---- MODULE Spec2Model ----
(***************************************************************************)
(* State-machine model of AnomalyDetectorXGBoost                           *)
(* (src/python/anomaly_detection_xgboost.py): the data preparation,        *)
(* training, evaluation and single-point prediction pipeline.              *)
(*                                                                         *)
(* The third-party collaborators are modelled by what the calls made by    *)
(* the script do: pandas.read_csv / concat, sklearn LabelEncoder (classes_ *)
(* = sorted distinct values), StandardScaler (fit = reset, validate,       *)
(* statistics; transform = validate, (x - mean) / scale),                  *)
(* train_test_split (stratified), and the classifier (fit may raise; the   *)
(* learned function is chosen nondeterministically).                       *)
(***************************************************************************)
EXTENDS Integers, Sequences, FiniteSets, TLC

VARIABLES model, scaler, label_encoder, feature_columns, results, catfit, last

vars == <<model, scaler, label_encoder, feature_columns, results, catfit, last>>

---------------------------------------------------------------------------
(* Bounds of the model *)

\* most rows a generated input file holds
MaxRows == 2

\* largest count of one cell of a confusion matrix given to the evaluator
MaxCount == 3

---------------------------------------------------------------------------
(* Cell values of a table: a number, a string, or a missing value (NaN) *)

Num(i) == [k |-> "num", n |-> i, s |-> ""]
Str(x) == [k |-> "str", n |-> 0, s |-> x]
NaN == [k |-> "nan", n |-> 0, s |-> ""]

\* the strings that occur as cell values, in Python's str order (code points)
StrOrder == <<"A", "B", "D", "anomalous", "attack", "nan", "normal">>

IndexOf(seq, x) == CHOOSE i \in 1..Len(seq) : seq[i] = x

InSeq(seq, x) == \E i \in 1..Len(seq) : seq[i] = x

Range(seq) == {seq[i] : i \in 1..Len(seq)}

\* the label column the detector is constructed with
label_column == "label"

---------------------------------------------------------------------------
(* Input files.  A file is unreadable, or a table: column names and rows   *)
(* (each row a sequence of cell values in column order).                   *)

Unreadable == [readable |-> FALSE, cols |-> <<>>, rows |-> <<>>]

SFull == <<"f1", "f5", "label">>
SLabelFirst == <<"label", "f1">>
SLabelOnly == <<"label">>
SNoLabel == <<"f1", "f5">>

Schemas == {SFull, SLabelFirst, SLabelOnly, SNoLabel}

FileLabels == {"normal", "anomalous"}

Variants == {0, 1}

\* the cell of row i in column col of the generated file (lab, v)
Cell(col, lab, v, i) ==
    IF col = "f1" THEN Num(i + v)
    ELSE IF col = "f5"
         THEN (IF lab = "anomalous" THEN Str("D")
               ELSE IF (i + v) % 2 = 1 THEN Str("B") ELSE Str("A"))
         ELSE Str(IF v = 1 /\ i % 2 = 0 THEN "attack" ELSE lab)

MkFile(schema, lab, v, r) ==
    [readable |-> TRUE,
     cols |-> schema,
     rows |-> [i \in 1..r |-> [j \in 1..Len(schema) |-> Cell(schema[j], lab, v, i)]]]

Files ==
    {Unreadable} \cup
    {MkFile(sc, lab, v, r) : sc \in Schemas, lab \in FileLabels, v \in Variants,
                             r \in 1..MaxRows}

---------------------------------------------------------------------------
(* sklearn.preprocessing.LabelEncoder *)

\* enumeration in order of first occurrence (what the specification describes)
FirstSeenOrder(vals) ==
    LET F[i \in 0..Len(vals)] ==
            IF i = 0 THEN <<>>
            ELSE IF InSeq(F[i - 1], vals[i]) THEN F[i - 1]
                 ELSE Append(F[i - 1], vals[i])
    IN F[Len(vals)]

\* fit: classes_ = np.unique(y), the distinct values in ascending order
LabelEncoderFit(vals) == SelectSeq(StrOrder, LAMBDA x : InSeq(vals, x))

\* transform: the position of each value in classes_
LabelEncoderTransform(classes, vals) ==
    [i \in 1..Len(vals) |-> IndexOf(classes, vals[i]) - 1]

---------------------------------------------------------------------------
(* load_and_prepare_data and _handle_categorical_features *)

\* pd.concat([normal, anomalous], ignore_index=True): the union of the
\* columns in order of first appearance, a missing cell filled with NaN
ConcatCols(n, a) == n.cols \o SelectSeq(a.cols, LAMBDA c : ~InSeq(n.cols, c))

Widen(f, cols, row) ==
    [j \in 1..Len(cols) |->
        IF InSeq(f.cols, cols[j]) THEN row[IndexOf(f.cols, cols[j])] ELSE NaN]

ConcatDropsAnomalous(n, a) ==
    [cols |-> ConcatCols(n, a),
     rows |-> [i \in 1..Len(n.rows) |-> Widen(n, ConcatCols(n, a), n.rows[i])]]

Concat(n, a) ==
    LET cols == ConcatCols(n, a)
    IN [cols |-> cols,
        rows |-> [i \in 1..(Len(n.rows) + Len(a.rows)) |->
                    IF i <= Len(n.rows) THEN Widen(n, cols, n.rows[i])
                    ELSE Widen(a, cols, a.rows[i - Len(n.rows)])]]

\* combined_data[cols]: the projection of every row on the columns cols
Project(table, cols) ==
    [i \in 1..Len(table.rows) |->
        [j \in 1..Len(cols) |-> table.rows[i][IndexOf(table.cols, cols[j])]]]

\* dtype == 'object': the column holds a string
IsObjectColumn(X, j) == \E i \in 1..Len(X) : X[i][j].k = "str"

\* .astype(str)
AsStr(v) == IF v.k = "str" THEN v.s ELSE "nan"

ColumnStrings(X, j) == [i \in 1..Len(X) |-> AsStr(X[i][j])]

\* the classes_ of the LabelEncoder fitted to column j (<<>>: a numeric column)
CategoricalClasses(X, ncols) ==
    [j \in 1..ncols |->
        IF IsObjectColumn(X, j) THEN LabelEncoderFit(ColumnStrings(X, j)) ELSE <<>>]

HandleCategoricalFeatures(X, ncols) ==
    LET classes == CategoricalClasses(X, ncols)
    IN [i \in 1..Len(X) |->
          [j \in 1..ncols |->
             IF IsObjectColumn(X, j)
             THEN Num(IndexOf(classes[j], AsStr(X[i][j])) - 1)
             ELSE X[i][j]]]

LoadFailure(kind, source, steps, missing, columns) ==
    [ok |-> FALSE, error |-> kind, source |-> source, steps |-> steps,
     missing |-> missing, columns |-> columns, X |-> "None", y |-> "None"]

SchemaErrorOfNormalOnly(n, a) ==
    LoadFailure("SchemaError", "normal", <<"read_normal", "read_anomalous", "check_label">>,
                label_column, n.cols)

SchemaErrorOf(n, a) ==
    IF ~InSeq(n.cols, label_column)
    THEN LoadFailure("SchemaError", "normal",
                     <<"read_normal", "read_anomalous", "check_label">>,
                     label_column, n.cols)
    ELSE LoadFailure("SchemaError", "anomalous",
                     <<"read_normal", "read_anomalous", "check_label">>,
                     label_column, a.cols)

LoadSuccess(n, a) ==
    LET combined == Concat(n, a)
        fc == SelectSeq(combined.cols, LAMBDA c : c # label_column)
        Xraw == Project(combined, fc)
        yraw == [i \in 1..Len(combined.rows) |->
                    AsStr(combined.rows[i][IndexOf(combined.cols, label_column)])]
        classes == LabelEncoderFit(yraw)
    IN [ok |-> TRUE, error |-> "none", source |-> "none",
        steps |-> <<"read_normal", "read_anomalous", "check_label", "concat",
                    "categorical_encoding", "label_encoding">>,
        normal_rows |-> n.rows, anomalous_rows |-> a.rows,
        normal_cols |-> n.cols, anomalous_cols |-> a.cols,
        combined |-> combined,
        feature_columns |-> fc,
        Xraw |-> Xraw,
        catclasses |-> CategoricalClasses(Xraw, Len(fc)),
        X |-> HandleCategoricalFeatures(Xraw, Len(fc)),
        yraw |-> yraw,
        classes |-> classes,
        y |-> LabelEncoderTransform(classes, yraw)]

\* the outcome of load_and_prepare_data on the two files
LoadAndPrepareData(n, a) ==
    IF ~n.readable
    THEN LoadFailure("FileNotFound", "normal", <<"read_normal">>, "", <<>>)
    ELSE IF ~a.readable
    THEN LoadFailure("FileNotFound", "anomalous", <<"read_normal", "read_anomalous">>,
                     "", <<>>)
    ELSE IF ~InSeq(n.cols, label_column) \/ ~InSeq(a.cols, label_column)
    THEN SchemaErrorOf(n, a)
    ELSE LoadSuccess(n, a)

---------------------------------------------------------------------------
(* train_test_split(X, y, test_size, random_state, stratify=y) *)

\* test_size as a fraction <<numerator, denominator>>
TestSizes == {<<1, 5>>, <<1, 2>>}

\* ceil(test_size * n_samples)
NTest(n, ts) == (ts[1] * n + ts[2] - 1) \div ts[2]

ClassCount(y, c) == Cardinality({i \in 1..Len(y) : y[i] = c})

\* ValueError: an empty train set, a class with fewer than 2 members, or a
\* train or test set smaller than the number of classes
SplitRaises(y, ts) ==
    LET n == Len(y)
        nt == NTest(n, ts)
        k == Cardinality(Range(y))
    IN \/ n - nt <= 0
       \/ \E c \in Range(y) : ClassCount(y, c) < 2
       \/ n - nt < k
       \/ nt < k

\* _approximate_mode: the train set takes floor(count * n_train / n) members
\* of each class, the classes with the largest remainders one more
StratifiedTrain(y, ntrain, T) ==
    LET n == Len(y)
        cnt(c) == ClassCount(y, c)
        got(c) == Cardinality({i \in 1..n : y[i] = c /\ i \notin T})
        flo(c) == (cnt(c) * ntrain) \div n
        rem(c) == (cnt(c) * ntrain) % n
    IN /\ \A c \in Range(y) :
            \/ got(c) = flo(c)
            \/ got(c) = flo(c) + 1 /\ rem(c) > 0
       /\ \A c, d \in Range(y) :
            (got(c) = flo(c) + 1 /\ got(d) = flo(d)) => rem(c) >= rem(d)

\* the test index sets a seed can produce
SplitChoices(y, ts) ==
    {T \in SUBSET (1..Len(y)) :
        /\ Cardinality(T) = NTest(Len(y), ts)
        /\ StratifiedTrain(y, Len(y) - NTest(Len(y), ts), T)}

\* the members of an index set, in index order
Indices(S, n) == SelectSeq([i \in 1..n |-> i], LAMBDA i : i \in S)

RowsAt(X, idx) == [i \in 1..Len(idx) |-> X[idx[i]]]

---------------------------------------------------------------------------
(* sklearn.preprocessing.StandardScaler.  The statistics of a column are   *)
(* kept exactly: n values seen (NaN ignored), their sum s and sum of       *)
(* squares q; mean = s/n, var = q/n - (s/n)^2.  A scaled value             *)
(* (x - mean)/sqrt(var) is kept as the pair num = n*x - s, den2 =          *)
(* n*q - s*s (the value is num / sqrt(den2)); a zero variance scales by 1, *)
(* that is den2 = n*n.                                                     *)

UnfittedScaler == [fitted |-> FALSE, stats |-> <<>>]

SumTo(f, n) ==
    LET S[i \in 0..n] == IF i = 0 THEN 0 ELSE S[i - 1] + f[i]
    IN S[n]

ColStats(X, j) ==
    LET seen == SelectSeq([i \in 1..Len(X) |-> X[i][j]], LAMBDA v : v.k = "num")
    IN [n |-> Len(seen),
        s |-> SumTo([i \in 1..Len(seen) |-> seen[i].n], Len(seen)),
        q |-> SumTo([i \in 1..Len(seen) |-> seen[i].n * seen[i].n], Len(seen))]

\* check_array: at least one row and one column
ScalerInputRejected(X, ncols) == Len(X) = 0 \/ ncols = 0

ScalerFit(X, ncols) ==
    [fitted |-> TRUE, stats |-> [j \in 1..ncols |-> ColStats(X, j)]]

ScaledNaN == [nan |-> TRUE, num |-> 0, den2 |-> 1]

ScaleValue(st, v) ==
    IF v.k # "num" \/ st.n = 0 THEN ScaledNaN
    ELSE [nan |-> FALSE,
          num |-> st.n * v.n - st.s,
          den2 |-> IF st.n * st.q - st.s * st.s = 0 THEN st.n * st.n
                   ELSE st.n * st.q - st.s * st.s]

ScaleRow(sc, row) == [j \in 1..Len(row) |-> ScaleValue(sc.stats[j], row[j])]

ScalerTransform(sc, X) == [i \in 1..Len(X) |-> ScaleRow(sc, X[i])]

---------------------------------------------------------------------------
(* The classifier (xgb.XGBClassifier): construction, fit, predict *)

NoModel == [null |-> TRUE, fitted |-> FALSE, n_features |-> 0, n_classes |-> 0,
            learned |-> "none"]

ConstructedModel == [null |-> FALSE, fitted |-> FALSE, n_features |-> 0,
                     n_classes |-> 0, learned |-> "none"]

\* what fit can leave in the model: a learned function, or nothing (it raised)
FitOutcomes == {"always0", "sign", "raise"}

FittedModel(ncols, k, learned) ==
    [null |-> FALSE, fitted |-> TRUE, n_features |-> ncols, n_classes |-> k,
     learned |-> learned]

PredictRow(m, row) ==
    IF m.n_classes < 2 \/ m.learned = "always0" THEN 0
    ELSE IF m.learned = "always1" THEN 1
    ELSE IF ~row[1].nan /\ row[1].num > 0 THEN 1 ELSE 0

ModelPredict(m, X) == [i \in 1..Len(X) |-> PredictRow(m, X[i])]

\* predict_proba(X)[:, 1], in percent
ModelPredictProba1(m, X) ==
    [i \in 1..Len(X) |-> IF PredictRow(m, X[i]) = 1 THEN 75 ELSE 25]

---------------------------------------------------------------------------
(* _evaluate_model.  Fractions are kept exactly as [num, den].             *)

Zero == [num |-> 0, den |-> 1]

Count(yt, yp, t, p) == Cardinality({i \in 1..Len(yt) : yt[i] = t /\ yp[i] = p})

\* classification_report with two target names: ValueError unless exactly two
\* labels occur in y_true and y_pred
EvaluateRaises(yt, yp) == Cardinality(Range(yt) \cup Range(yp)) # 2

\* confusion_matrix(y_true, y_pred).ravel() over the two labels in order
ConfusionMatrix(yt, yp) ==
    LET labels == Range(yt) \cup Range(yp)
        lo == CHOOSE l \in labels : \A m \in labels : l <= m
        hi == CHOOSE l \in labels : \A m \in labels : m <= l
    IN [tn |-> Count(yt, yp, lo, lo), fp |-> Count(yt, yp, lo, hi),
        fn |-> Count(yt, yp, hi, lo), tp |-> Count(yt, yp, hi, hi)]

UnguardedRatio(a, b) == [num |-> a, den |-> b]

\* a / b if b > 0 else 0
GuardedRatio(a, b) == IF b > 0 THEN [num |-> a, den |-> b] ELSE Zero

\* 2 * (P * R) / (P + R) if (P + R) > 0 else 0
GuardedF1(P, R) ==
    IF P.num * R.den + R.num * P.den > 0
    THEN [num |-> 2 * P.num * R.num * P.den * R.den,
          den |-> (P.num * R.den + R.num * P.den) * P.den * R.den]
    ELSE Zero

Metrics(cm) ==
    LET precision == GuardedRatio(cm.tp, cm.tp + cm.fp)
        recall == GuardedRatio(cm.tp, cm.tp + cm.fn)
    IN [precision |-> precision, recall |-> recall,
        f1_score |-> GuardedF1(precision, recall)]

---------------------------------------------------------------------------
(* The detector *)

\* __init__: no model, a new scaler and a new label encoder, no feature
\* columns, no stored test results
NoColumns == [null |-> TRUE, cols |-> <<>>]

UnfittedLabelEncoder == [fitted |-> FALSE, classes |-> <<>>]

NoResults == [present |-> FALSE, X_test |-> <<>>, y_test |-> <<>>, y_pred |-> <<>>,
              y_pred_proba |-> <<>>]

NewDetector ==
    /\ model = NoModel
    /\ scaler = UnfittedScaler
    /\ label_encoder = UnfittedLabelEncoder
    /\ feature_columns = NoColumns
    /\ results = NoResults
    /\ catfit = <<>>

\* what a successful load_and_prepare_data leaves on the detector: line 81
\* assigns feature_columns, line 89 fits self.label_encoder; the encoders of
\* _handle_categorical_features are locals (catfit records the latest ones)
Loaded(L) ==
    /\ feature_columns' = [null |-> FALSE, cols |-> L.feature_columns]
    /\ label_encoder' = [fitted |-> TRUE, classes |-> L.classes]
    /\ catfit' = L.catclasses

---------------------------------------------------------------------------
(* load_and_prepare_data on its own, over every pair of input files *)

InitLoad ==
    /\ NewDetector
    /\ \E n \in Files, a \in Files :
          last = [op |-> "new", normal |-> n, anomalous |-> a]

LoadAndPrepare ==
    /\ last.op = "new"
    /\ LET L == LoadAndPrepareData(last.normal, last.anomalous)
       IN /\ last' = [op |-> "load_and_prepare_data", normal |-> last.normal,
                      anomalous |-> last.anomalous, out |-> L]
          /\ IF L.ok THEN Loaded(L)
             ELSE UNCHANGED <<feature_columns, label_encoder, catfit>>
    /\ UNCHANGED <<model, scaler, results>>

NextLoad == LoadAndPrepare

SpecLoad == InitLoad /\ [][NextLoad]_vars

---------------------------------------------------------------------------
(* _evaluate_model's metrics on its own, over every confusion matrix *)

InitEval ==
    /\ NewDetector
    /\ \E tn \in 0..MaxCount, fp \in 0..MaxCount, fn \in 0..MaxCount, tp \in 0..MaxCount :
          last = [op |-> "confusion_matrix",
                  cm |-> [tn |-> tn, fp |-> fp, fn |-> fn, tp |-> tp]]

EvaluateModel ==
    /\ last.op = "confusion_matrix"
    /\ last' = [op |-> "_evaluate_model", cm |-> last.cm, metrics |-> Metrics(last.cm)]
    /\ UNCHANGED <<model, scaler, label_encoder, feature_columns, results, catfit>>

NextEval == EvaluateModel

SpecEval == InitEval /\ [][NextEval]_vars

---------------------------------------------------------------------------
(* train_model.  The call is one step; an exception leaves on the detector *)
(* what the statements before it did.                                      *)

\* the file contents the two paths can hold when train_model is called: an
\* unreadable file, a table without the label column, a table of the label
\* column alone, and a full table of each label; two rows each, the fewest
\* with which a stratified split of two classes succeeds
TrainFiles ==
    {Unreadable, MkFile(SNoLabel, "normal", 0, 1), MkFile(SLabelOnly, "attack", 0, 2)}
    \cup {MkFile(SFull, lab, 0, 2) : lab \in FileLabels}

\* the detector's attributes as one record
Detector ==
    [model |-> model, scaler |-> scaler, label_encoder |-> label_encoder,
     feature_columns |-> feature_columns, results |-> results, catfit |-> catfit]

PipelineSteps ==
    <<"split", "scaler_fit", "scaler_transform", "classifier_construct",
      "classifier_fit", "predict", "evaluate", "store">>

\* one execution of train_model's statements: the attributes it sets (sets),
\* and its call record: the steps entered (those of the load, then nsteps
\* pipeline steps), how it ended, the objects it constructed and fitted
Run(sets, outcome, exception, L, nsteps, constructed, refitted) ==
    [sets |-> sets,
     call |-> [op |-> "train_model", outcome |-> outcome, exception |-> exception,
               load_error |-> L.error,
               steps |-> L.steps \o SubSeq(PipelineSteps, 1, nsteps),
               constructed |-> constructed, refitted |-> refitted]]

FallThroughOnLoadFailure(L) ==
    Run([model |-> ConstructedModel], "raised", "TypeError", L, 4, {"model"}, {})

\* a train_model that discards the scaler's statistics before it returns
LoadFailureResetsScaler(L) ==
    Run([scaler |-> UnfittedScaler], "returned_none", "none", L, 0, {}, {})

\* lines 128-130: X is None or y is None: print and return
HaltOnLoadFailure(L) == Run(<<>>, "returned_none", "none", L, 0, {}, {})

\* the objects a successful load constructs: one LabelEncoder per categorical
\* column (line 111)
LoadConstructs(L) ==
    IF \E j \in 1..Len(L.catclasses) : L.catclasses[j] # <<>> THEN {"le"} ELSE {}

\* XGBClassifier.fit: the labels must be 0..k-1
FitRejects(ytr) == Range(ytr) # 0..(Cardinality(Range(ytr)) - 1)

\* train_model's statements on the loaded data L, with the test fraction
\* ts, the test index set T the seed yields and the outcome fo of the
\* classifier's fit
PipelineRun(L, ts, T, fo) ==
    IF ~L.ok THEN HaltOnLoadFailure(L)
    ELSE
    LET S1 == [feature_columns |-> [null |-> FALSE, cols |-> L.feature_columns],
               label_encoder |-> [fitted |-> TRUE, classes |-> L.classes],
               catfit |-> L.catclasses]
        made == LoadConstructs(L)
    IN
    IF SplitRaises(L.y, ts)
    THEN Run(S1, "raised", "ValueError", L, 1, made, {"label_encoder"})
    ELSE
    LET n == Len(L.y)
        ncols == Len(L.feature_columns)
        train == Indices((1..n) \ T, n)
        test == Indices(T, n)
        X_train == RowsAt(L.X, train)
        X_test == RowsAt(L.X, test)
        y_train == RowsAt(L.y, train)
        y_test == RowsAt(L.y, test)
    IN
    IF ScalerInputRejected(X_train, ncols)
    THEN Run(S1 @@ [scaler |-> UnfittedScaler], "raised", "ValueError", L, 2, made,
             {"label_encoder", "scaler"})
    ELSE
    LET sc == ScalerFit(X_train, ncols)
        X_train_scaled == ScalerTransform(sc, X_train)
        X_test_scaled == ScalerTransform(sc, X_test)
        S3 == S1 @@ [scaler |-> sc]
    IN
    IF fo = "raise" \/ FitRejects(y_train)
    THEN Run(S3 @@ [model |-> ConstructedModel], "raised", "XGBoostError", L, 5,
             made \cup {"model"}, {"label_encoder", "scaler"})
    ELSE
    LET m == FittedModel(ncols, Cardinality(Range(y_train)), fo)
        y_pred == ModelPredict(m, X_test_scaled)
        y_pred_proba == ModelPredictProba1(m, X_test_scaled)
        S4 == S3 @@ [model |-> m]
    IN
    IF EvaluateRaises(y_test, y_pred)
    THEN Run(S4, "raised", "ValueError", L, 7, made \cup {"model"},
             {"label_encoder", "scaler"})
    ELSE
    LET R == Run(S4 @@ [results |-> [present |-> TRUE, X_test |-> X_test_scaled,
                                     y_test |-> y_test, y_pred |-> y_pred,
                                     y_pred_proba |-> y_pred_proba]],
                 "returned", "none", L, 8, made \cup {"model"},
                 {"label_encoder", "scaler"})
    IN [R EXCEPT !.call = @ @@ [load |-> L, test_size |-> ts, test |-> T, fit |-> fo,
                                X_train |-> X_train,
                                report |-> Metrics(ConfusionMatrix(y_test, y_pred))]]

ReachesSplit(L, ts) == L.ok /\ ~SplitRaises(L.y, ts)

ReachesFit(L, ts) == ReachesSplit(L, ts) /\ Len(L.feature_columns) > 0

\* every execution of train_model over the inputs
RunsOn(n, a, ts) ==
    LET L == LoadAndPrepareData(n, a)
    IN {PipelineRun(L, ts, T, fo) :
          T \in (IF ReachesSplit(L, ts) THEN SplitChoices(L.y, ts) ELSE {{}}),
          fo \in (IF ReachesFit(L, ts) THEN FitOutcomes ELSE {"raise"})}

Runs == UNION {RunsOn(n, a, ts) : n \in TrainFiles, a \in TrainFiles, ts \in TestSizes}

\* self.scaler.fit_transform (line 138) and self.label_encoder.fit_transform
\* (line 89) fit the detector's one scaler and one label encoder again: fit
\* discards what the object had learned
ScalerRefitAccumulates(old, fresh) ==
    IF old.fitted /\ fresh.fitted /\ Len(old.stats) = Len(fresh.stats)
    THEN [fitted |-> TRUE,
          stats |-> [j \in 1..Len(fresh.stats) |->
                       [n |-> old.stats[j].n + fresh.stats[j].n,
                        s |-> old.stats[j].s + fresh.stats[j].s,
                        q |-> old.stats[j].q + fresh.stats[j].q]]]
    ELSE fresh

ScalerRefit(old, fresh) == fresh

LabelEncoderRefit(old, fresh) == fresh

\* the detector and the call record after the execution R from the state D
TrainOutcome(D, R) ==
    LET has(k) == k \in DOMAIN R.sets
    IN [model |-> IF has("model") THEN R.sets.model ELSE D.model,
        scaler |-> IF has("scaler") THEN ScalerRefit(D.scaler, R.sets.scaler)
                   ELSE D.scaler,
        label_encoder |-> IF has("label_encoder")
                          THEN LabelEncoderRefit(D.label_encoder, R.sets.label_encoder)
                          ELSE D.label_encoder,
        feature_columns |-> IF has("feature_columns") THEN R.sets.feature_columns
                            ELSE D.feature_columns,
        results |-> IF has("results") THEN R.sets.results ELSE D.results,
        catfit |-> IF has("catfit") THEN R.sets.catfit ELSE D.catfit,
        last |-> R.call @@ [retrain |-> D.results.present]]

Commit(E) ==
    /\ model' = E.model
    /\ scaler' = E.scaler
    /\ label_encoder' = E.label_encoder
    /\ feature_columns' = E.feature_columns
    /\ results' = E.results
    /\ catfit' = E.catfit
    /\ last' = E.last

TrainModel == \E R \in Runs : Commit(TrainOutcome(Detector, R))

---------------------------------------------------------------------------
(* predict_anomaly, analyze_feature_importance, visualize_results *)

\* the data points handed to predict_anomaly: a raw row with its categorical
\* value as a string, rows of numbers, a row of the wrong length
DataPoints ==
    {<<Num(1), Str("B")>>, <<Num(1), Num(0)>>, <<Num(2)>>}

PredictRecord(dp, outcome, exception, calls, passed, prediction) ==
    [op |-> "predict_anomaly", data_point |-> dp, outcome |-> outcome,
     exception |-> exception, calls |-> calls, passed |-> passed,
     prediction |-> prediction]

\* np.array(data_point) as float64: a value that is no number cannot be converted
TransformRejects(sc, dp) ==
    \/ Len(dp) = 0
    \/ \E j \in 1..Len(dp) : dp[j].k = "str"
    \/ Len(dp) # Len(sc.stats)

PredictOutcome(m, sc, dp) ==
    IF m.null
    THEN PredictRecord(dp, "ModelNotTrained", "none", <<>>, <<>>, -1)
    ELSE IF ~sc.fitted
    THEN PredictRecord(dp, "raised", "NotFittedError", <<"scaler.transform">>, <<>>, -1)
    ELSE IF TransformRejects(sc, dp)
    THEN PredictRecord(dp, "raised", "ValueError", <<"scaler.transform">>, <<>>, -1)
    ELSE IF ~m.fitted
    THEN PredictRecord(dp, "raised", "NotFittedError",
                       <<"scaler.transform", "model.predict">>, ScaleRow(sc, dp), -1)
    ELSE IF m.n_features # Len(dp)
    THEN PredictRecord(dp, "raised", "ValueError",
                       <<"scaler.transform", "model.predict">>, ScaleRow(sc, dp), -1)
    ELSE PredictRecord(dp, "returned", "none",
                       <<"scaler.transform", "model.predict", "model.predict_proba">>,
                       ScaleRow(sc, dp), PredictRow(m, ScaleRow(sc, dp)))

PredictAnomaly ==
    /\ \E dp \in DataPoints : last' = PredictOutcome(model, scaler, dp)
    /\ UNCHANGED <<model, scaler, label_encoder, feature_columns, results, catfit>>

AnalyzeFeatureImportance ==
    /\ last' = [op |-> "analyze_feature_importance",
                outcome |-> IF model.null THEN "ModelNotTrained"
                            ELSE IF ~model.fitted THEN "raised"
                            ELSE IF model.n_features # Len(feature_columns.cols)
                                 THEN "raised"
                                 ELSE "returned",
                calls |-> IF model.null THEN <<>> ELSE <<"model.feature_importances_">>]
    /\ UNCHANGED <<model, scaler, label_encoder, feature_columns, results, catfit>>

VisualizeResults ==
    /\ last' = [op |-> "visualize_results",
                outcome |-> IF ~results.present THEN "NoResults"
                            ELSE IF ~model.fitted THEN "raised"
                            ELSE IF model.n_features > Len(feature_columns.cols)
                                 THEN "raised"
                                 ELSE "returned",
                calls |-> IF ~results.present THEN <<>>
                          ELSE <<"model.feature_importances_">>]
    /\ UNCHANGED <<model, scaler, label_encoder, feature_columns, results, catfit>>

Init ==
    /\ NewDetector
    /\ last = [op |-> "__init__"]

Next ==
    \/ TrainModel
    \/ PredictAnomaly
    \/ AnalyzeFeatureImportance
    \/ VisualizeResults

Spec == Init /\ [][Next]_vars

---------------------------------------------------------------------------
(* Claims about load_and_prepare_data (checked under SpecLoad) *)

LoadDone == last.op = "load_and_prepare_data"

HasLabel(f) == InSeq(f.cols, label_column)

SourceOf(name) == IF name = "normal" THEN last.normal ELSE last.anomalous

\* C2: with both files readable and the label column absent from the normal
\* or the anomalous source, load_and_prepare_data fails with SchemaError,
\* reports the missing column name and the column list of the source that
\* lacks it, and returns no feature matrix and no label vector.
C2_SchemaError ==
    (/\ LoadDone
     /\ last.normal.readable /\ last.anomalous.readable
     /\ (~HasLabel(last.normal) \/ ~HasLabel(last.anomalous)))
    => /\ ~last.out.ok
       /\ last.out.error = "SchemaError"
       /\ last.out.missing = label_column
       /\ last.out.source \in {"normal", "anomalous"}
       /\ ~HasLabel(SourceOf(last.out.source))
       /\ last.out.columns = SourceOf(last.out.source).cols
       /\ last.out.X = "None" /\ last.out.y = "None"

C2_Witness ==
    /\ LoadDone
    /\ last.normal.readable /\ last.anomalous.readable
    /\ HasLabel(last.normal) /\ ~HasLabel(last.anomalous)
    /\ last.out.error = "SchemaError"
    /\ last.out.columns = last.anomalous.cols
    /\ last.out.columns # last.normal.cols

ValidInputs ==
    /\ last.normal.readable /\ last.anomalous.readable
    /\ HasLabel(last.normal) /\ HasLabel(last.anomalous)

\* row i of the combined dataset carries row r of file f unchanged
SameRow(f, r, i) ==
    \A c \in Range(f.cols) :
        last.out.combined.rows[i][IndexOf(last.out.combined.cols, c)]
            = f.rows[r][IndexOf(f.cols, c)]

\* C4: for valid inputs the combined dataset has rows(normal) +
\* rows(anomalous) rows, the normal rows first and then the anomalous rows,
\* each in its source order, none dropped or merged; X and y have that many
\* rows.
C4_RowsPreserved ==
    (LoadDone /\ ValidInputs)
    => /\ last.out.ok
       /\ Len(last.out.combined.rows)
             = Len(last.normal.rows) + Len(last.anomalous.rows)
       /\ \A i \in 1..Len(last.normal.rows) : SameRow(last.normal, i, i)
       /\ \A i \in 1..Len(last.anomalous.rows) :
             SameRow(last.anomalous, i, Len(last.normal.rows) + i)
       /\ Len(last.out.X) = Len(last.normal.rows) + Len(last.anomalous.rows)
       /\ Len(last.out.y) = Len(last.normal.rows) + Len(last.anomalous.rows)

C4_Witness ==
    /\ LoadDone /\ ValidInputs
    /\ Len(last.normal.rows) = 2 /\ Len(last.anomalous.rows) = 1
    /\ last.normal.cols # last.anomalous.cols
    /\ Len(last.out.X) = 3
    /\ last.out.combined.rows[3][IndexOf(last.out.combined.cols, label_column)]
          = last.anomalous.rows[1][IndexOf(last.anomalous.cols, label_column)]
    /\ last.out.yraw[1] # last.out.yraw[3]

\* C6: the label encoder maps the k distinct labels to 0..k-1, and with the
\* labels "normal" and "anomalous" the code 1 denotes "anomalous" and the
\* code 0 "normal".
C6_AnomalousIsOne ==
    (LoadDone /\ last.out.ok)
    => /\ Range(last.out.y) = 0..(Cardinality(Range(last.out.yraw)) - 1)
       /\ Range(last.out.yraw) = {"normal", "anomalous"}
            => \A i \in 1..Len(last.out.y) :
                  last.out.y[i] = (IF last.out.yraw[i] = "anomalous" THEN 1 ELSE 0)

\* the k distinct labels do get the codes 0..k-1
C6_DenseCodes ==
    (LoadDone /\ last.out.ok)
    => Range(last.out.y) = 0..(Cardinality(Range(last.out.yraw)) - 1)

\* C9: every non-numeric feature column is coded by first-seen-order
\* enumeration of the string representation of its values, and every numeric
\* column is left unchanged.  (The claim's third part, that the mapping is
\* stored for reuse, is what C5 rests on.)
C9_FirstSeenCodes ==
    (LoadDone /\ last.out.ok)
    => \A i \in 1..Len(last.out.Xraw) :
         \A j \in 1..Len(last.out.feature_columns) :
            last.out.X[i][j] =
               (IF IsObjectColumn(last.out.Xraw, j)
                THEN Num(IndexOf(FirstSeenOrder(ColumnStrings(last.out.Xraw, j)),
                                 AsStr(last.out.Xraw[i][j])) - 1)
                ELSE last.out.Xraw[i][j])

---------------------------------------------------------------------------
(* Claims about _evaluate_model (checked under SpecEval) *)

InUnit(m) == m.den > 0 /\ 0 <= m.num /\ m.num <= m.den

\* C8: for every confusion matrix of non-negative counts, precision =
\* tp/(tp+fp), recall = tp/(tp+fn), F1 = 2PR/(P+R); each lies in [0, 1], is
\* exactly 0 when its own denominator is 0, and no division by zero occurs.
C8_Metrics ==
    last.op = "_evaluate_model"
    => LET cm == last.cm
           P == last.metrics.precision
           R == last.metrics.recall
           F == last.metrics.f1_score
       IN /\ InUnit(P) /\ InUnit(R) /\ InUnit(F)
          /\ cm.tp + cm.fp > 0 => P.num * (cm.tp + cm.fp) = cm.tp * P.den
          /\ cm.tp + cm.fn > 0 => R.num * (cm.tp + cm.fn) = cm.tp * R.den
          /\ cm.tp + cm.fp = 0 => P.num = 0
          /\ cm.tp + cm.fn = 0 => R.num = 0
          /\ (P.num = 0 /\ R.num = 0) => F.num = 0
          /\ (P.num > 0 \/ R.num > 0)
                => F.num * (2 * cm.tp + cm.fp + cm.fn) = 2 * cm.tp * F.den

C8_Witness ==
    /\ last.op = "_evaluate_model"
    /\ last.cm.tp = 0 /\ last.cm.fp = 0 /\ last.cm.fn > 0
    /\ last.metrics.precision = Zero
    /\ last.metrics.f1_score = Zero

---------------------------------------------------------------------------
(* Claims about the detector's life (checked under Spec) *)

TrainDone == last.op = "train_model"

PredictDone == last.op = "predict_anomaly"

\* C1: predict_anomaly called while no train_model pass has completed
\* successfully (the test results are stored by a pass that completes) ends
\* as ModelNotTrained: no prediction, and neither the scaler's transform nor
\* the classifier's predict is called.
C1_PredictBeforeTraining ==
    (PredictDone /\ ~results.present)
    => /\ last.outcome = "ModelNotTrained"
       /\ last.prediction = -1
       /\ last.calls = <<>>

\* predict_anomaly on a detector whose model is None does end so
C1_PredictWithoutModel ==
    (PredictDone /\ model.null)
    => /\ last.outcome = "ModelNotTrained"
       /\ last.calls = <<>>

LoadSteps == {"read_normal", "read_anomalous", "check_label"}

\* C3: when loading fails (a file is unreadable or lacks the label column),
\* train_model halts with a failure result, none of the later steps
\* (categorical encoding, label encoding, split, scaler fit, classifier
\* construction or fit, evaluation) is entered in that call, and the model
\* is as it was: an untrained detector is still untrained.
C3_LoadFailureHalts ==
    [][(last'.op = "train_model" /\ last'.load_error # "none")
        => /\ last'.load_error \in {"FileNotFound", "SchemaError"}
           /\ last'.outcome = "returned_none"
           /\ Range(last'.steps) \subseteq LoadSteps
           /\ last'.constructed = {} /\ last'.refitted = {}
           /\ model' = model
           /\ (model.null => model'.null)]_vars

C3_Witness ==
    /\ TrainDone
    /\ last.load_error = "SchemaError"
    /\ last.outcome = "returned_none"
    /\ last.steps = <<"read_normal", "read_anomalous", "check_label">>
    /\ model.null /\ ~results.present

\* the detector holds one consistent fitted pipeline
FittedPipeline ==
    /\ results.present /\ model.fitted /\ scaler.fitted
    /\ ~feature_columns.null
    /\ Len(scaler.stats) = Len(feature_columns.cols)
    /\ Len(catfit) = Len(feature_columns.cols)
    /\ model.n_features = Len(feature_columns.cols)

\* a raw row in the training feature-column order: a string of a category
\* seen in training for a categorical column, a number for a numeric one
RawRow(dp) ==
    /\ Len(dp) = Len(catfit)
    /\ \A j \in 1..Len(dp) :
          IF catfit[j] # <<>> THEN dp[j].k = "str" /\ InSeq(catfit[j], dp[j].s)
          ELSE dp[j].k = "num"

\* the vector the training pipeline makes of the row: the fitted per-column
\* codes, then the fitted scaling
TrainingVector(dp) ==
    ScaleRow(scaler,
             [j \in 1..Len(dp) |->
                IF catfit[j] # <<>> THEN Num(IndexOf(catfit[j], dp[j].s) - 1)
                ELSE dp[j]])

\* C5: after a successful train_model, predict_anomaly on a raw row passes
\* to the classifier the vector the training pipeline would have produced
\* for that row (the fitted categorical codes, then the fitted scaling).
C5_SameEncodingAtPredict ==
    (PredictDone /\ FittedPipeline /\ RawRow(last.data_point))
    => /\ last.outcome = "returned"
       /\ last.passed = TrainingVector(last.data_point)

\* C7: transform is never called before the scaler is fitted, the scaler is
\* fitted on the training subset only, and whenever the model is not None
\* the scaler is fitted and feature_columns is set.
C7_ScalerFittedWithModel ==
    /\ ~model.null => (scaler.fitted /\ ~feature_columns.null)
    /\ (PredictDone /\ InSeq(last.calls, "scaler.transform")) => scaler.fitted
    /\ (TrainDone /\ last.outcome = "returned")
          => scaler = ScalerFit(last.X_train, Len(feature_columns.cols))

\* what the statements of the latest successful call compute from its inputs
DeterminedByLatestCall ==
    LET L == last.load
        ncols == Len(L.feature_columns)
        n == Len(L.y)
        sc == ScalerFit(last.X_train, ncols)
        X_test == ScalerTransform(sc, RowsAt(L.X, Indices(last.test, n)))
        y_train == RowsAt(L.y, Indices((1..n) \ last.test, n))
        m == FittedModel(ncols, Cardinality(Range(y_train)), last.fit)
    IN /\ last.X_train = RowsAt(L.X, Indices((1..n) \ last.test, n))
       /\ feature_columns = [null |-> FALSE, cols |-> L.feature_columns]
       /\ label_encoder = [fitted |-> TRUE, classes |-> LabelEncoderFit(L.yraw)]
       /\ scaler = sc
       /\ model = m
       /\ results = [present |-> TRUE, X_test |-> X_test,
                     y_test |-> RowsAt(L.y, Indices(last.test, n)),
                     y_pred |-> ModelPredict(m, X_test),
                     y_pred_proba |-> ModelPredictProba1(m, X_test)]

\* C10 as stated: each successful train_model call constructs a fresh
\* label encoder and scaler instead of changing a shared one, and leaves
\* label mapping, scaler statistics, feature_columns, model and test results
\* determined by that call's inputs alone.
C10_FreshEncoderAndScaler ==
    (TrainDone /\ last.outcome = "returned")
    => /\ {"scaler", "label_encoder"} \subseteq last.constructed
       /\ last.refitted = {}
       /\ DeterminedByLatestCall

\* C10 as amended: each successful train_model call fits the detector's one
\* scaler and one label encoder (made in __init__) again and constructs only
\* the classifier and the per-column encoders anew; the fit discards what
\* was learned before, so label mapping, scaler statistics, feature_columns,
\* model and test results are determined by that call's inputs alone.
C10_RefitOverwrites ==
    (TrainDone /\ last.outcome = "returned")
    => /\ "model" \in last.constructed
       /\ last.constructed \subseteq {"model", "le"}
       /\ last.refitted = {"label_encoder", "scaler"}
       /\ DeterminedByLatestCall

C10_Witness ==
    /\ TrainDone /\ last.outcome = "returned"
    /\ last.retrain
    /\ last.refitted = {"label_encoder", "scaler"}
    /\ Len(feature_columns.cols) = 2
    /\ scaler.fitted /\ scaler.stats[1].n = 2

\* C11: on a detector that has completed a successful train_model (its test
\* results are stored), a later train_model that fails during loading (a
\* file unreadable, the label column missing) leaves model, scaler,
\* label_encoder, feature_columns and the stored test results as they were;
\* predict_anomaly afterwards does what it did before the failed call, and
\* does not report the model as untrained.
C11_LoadFailureKeepsPipeline ==
    [][(results.present /\ last'.op = "train_model" /\ last'.load_error # "none")
        => /\ model' = model
           /\ scaler' = scaler
           /\ label_encoder' = label_encoder
           /\ feature_columns' = feature_columns
           /\ results' = results
           /\ \A dp \in DataPoints :
                /\ PredictOutcome(model', scaler', dp) = PredictOutcome(model, scaler, dp)
                /\ PredictOutcome(model', scaler', dp).outcome # "ModelNotTrained"]_vars

C11_Witness ==
    /\ TrainDone
    /\ last.load_error \in {"FileNotFound", "SchemaError"}
    /\ last.retrain
    /\ results.present
    /\ model.fitted /\ scaler.fitted
    /\ \E dp \in DataPoints : PredictOutcome(model, scaler, dp).outcome = "returned"

====
